---- MODULE Spec2Model ----
(***************************************************************************)
(* State-machine model of the smartsensrty backend: the chunked evidence   *)
(* upload (routes/evidenceRoutes.js), the evidence ledger routes, the      *)
(* guardian response, stream and SMS code (routes/advancedSOSRoutes.js),   *)
(* the volunteer routes, the login routes, POST /api/sos/start and the     *)
(* static mount of index.js, and the stores they read and write (upload    *)
(* directories on disk, MongoDB collections).                              *)
(* One action per HTTP handler; a handler runs to its reply in one step.   *)
(***************************************************************************)
EXTENDS Integers, Sequences, FiniteSets, TLC

\* ------------------------------------------------------------------ bounds
MaxRequests == 3      \* requests served in one behaviour
MaxChunks == 2        \* largest totalChunks a client declares
MaxTicks == 3         \* clock ticks in one behaviour

\* ------------------------------------------------------------ input domains
Undefined == "undefined"          \* a JavaScript undefined / absent field
NoFile == "ENOENT"                \* a path at which no file exists
NoId == 0                         \* an absent ObjectId; documents are numbered from 1
UploadIds == {"u1"}               \* the session the chunk-store requests address
AllUploadIds == {"u1", "u2"}      \* the upload directories there can be
RecordingIds == {"r1", "r2"}
TickHours == 12                   \* the clock (Date.now()) is read in steps of 12 hours

\* Coordinates are whole millidegrees, and every point of the model lies on
\* one meridian.  The registered crowd: volunteers who registered at server
\* start, 1 millidegree of latitude apart.
Meridian == 77000
CrowdSeq == <<"v01", "v02", "v03", "v04", "v05", "v06", "v07", "v08", "v09", "v10", "v11",
              "v12", "v13", "v14", "v15", "v16", "v17", "v18", "v19", "v20", "v21">>
CrowdIds == {CrowdSeq[i] : i \in 1 .. Len(CrowdSeq)}
CrowdBase == 100
CrowdLat(id) == CrowdBase + (CHOOSE i \in 1 .. Len(CrowdSeq) : CrowdSeq[i] = id)
Latitudes == {0, CrowdBase, 900}
Radiuses == {5000, 100000}
Contacts == {"c1", "c2"}          \* emergency contacts of a user
UpgradeHeaders == {Undefined, "websocket", "h2c"}
StreamSessionIds == {"s1"}
Emails == {"alice", "carol"}      \* alice registered with a password; carol has no account yet
Passwords == {"pw-alice", "guess"}
FileTypes == {"frontVideo", "audioRecording"}
ChunkBytes == {"a", "b"}
Users == {"alice", "bob"}
Indexes == 0 .. (MaxChunks - 1)
TotalChunksInputs == 1 .. MaxChunks

\* The Authorization header of a request.  jwt.verify accepts any payload
\* signed with the secret: kind "userId" is the payload {userId} the login
\* and register routes sign, kind "id" a payload {id}; "none" is a missing
\* header and "bad" a token whose signature does not verify.
Tokens ==
  {[kind |-> "none", uid |-> Undefined], [kind |-> "bad", uid |-> Undefined]}
    \cup [kind : {"id", "userId"}, uid : Users]

\* ------------------------------------------------------------------- state
VARIABLES
  uploadDirs,        \* uploadIds whose directory uploads/evidence/<uploadId> exists
  chunkFiles,        \* chunkFiles[u][<<fileType, index string>>]: bytes of <fileType>_chunk_<index>
  progress,          \* progress[u]: progress.json, entries in insertion order
  finalFiles,        \* finalFiles[u][fileType]: the file <fileType>_final.enc
  evidences,         \* the SOSEvidence collection; a record's _id is its position
  sosEvents,         \* the SOS collection; a record's _id is its position
  guardianResponses, \* the guardian responses persisted for incidents
  lastReply,         \* the reply to the request served last
  received,          \* history: how often each (uploadId, fileType, index) arrived
  finalized,         \* history: uploadIds whose finalize assembled every stream
  nreq,              \* requests served so far
  opened,            \* history: opened[u]: the recordingId and the time of the request
                     \* that created the directory of u
  now,               \* the server clock, in hours since start
  users,             \* the volunteer fields of the User collection, by _id
  sms,               \* the last sendEmergencySMS call: messages.create calls made per
                     \* contact, and the result returned
  accounts           \* the password field of the User collection, by email: no
                     \* element when no user has the email

vars == <<uploadDirs, chunkFiles, progress, finalFiles, evidences, sosEvents,
          guardianResponses, lastReply, received, finalized, nreq, opened, now, users, sms, accounts>>

chunkVars == <<uploadDirs, chunkFiles, progress, finalFiles, received, finalized, opened>>
dbVars == <<evidences, sosEvents, guardianResponses>>

\* ----------------------------------------------------------------- helpers
Digits == <<"0", "1", "2", "3", "4", "5", "6", "7", "8", "9">>

\* `${i}` of a small non-negative integer
ToStr(i) == Digits[i + 1]

\* parseInt of a canonical decimal string
ParseInt(s) == CHOOSE i \in 0 .. 9 : Digits[i + 1] = s

IndexStrs == {ToStr(i) : i \in Indexes}

Reply(route, status, info) == [route |-> route, status |-> status, info |-> info]

NoInfo == [none |-> TRUE]

\* middleware/auth authenticateToken: 401 without a token, 403 when
\* jwt.verify fails, otherwise req.user = payload and next()
AuthStatus(tok) ==
  IF tok.kind = "none" THEN 401
  ELSE IF tok.kind = "bad" THEN 403
  ELSE 200

\* req.user.id as the evidence routes read it: the payload's id field
ReqUserId(tok) == IF tok.kind = "id" THEN tok.uid ELSE Undefined

\* position of fileType in progress.json, 0 when it has no entry
ProgressIndex(p, ft) ==
  IF \E k \in 1 .. Len(p) : p[k].fileType = ft
  THEN CHOOSE k \in 1 .. Len(p) : p[k].fileType = ft
  ELSE 0

\* a file of the upload directory that holds a sequence of chunks
AbsentFile == [exists |-> FALSE, content |-> <<>>]
WrittenFile(content) == [exists |-> TRUE, content |-> content]

\* bcrypt.hash(password, salt) and the placeholder the Google sign-in routes
\* store in the password field
BcryptHash(password) == [scheme |-> "bcrypt", of |-> password]
GoogleAuth == [scheme |-> "plain", of |-> "GOOGLE_AUTH"]

\* the incidents the SOS collection holds at server start: one that was
\* resolved and an open one, both of alice
SeededEvents ==
  <<[userId |-> "alice", status |-> "resolved", evidence |-> NoId],
    [userId |-> "alice", status |-> "active", evidence |-> NoId]>>

\* ---------------------------------------------------------------- initial
Init ==
  /\ uploadDirs = {}
  /\ chunkFiles = [u \in AllUploadIds |-> [k \in FileTypes \X IndexStrs |-> NoFile]]
  /\ progress = [u \in AllUploadIds |-> <<>>]
  /\ finalFiles = [u \in AllUploadIds |-> [ft \in FileTypes |-> AbsentFile]]
  /\ evidences = <<>>
  /\ sosEvents \in {<<>>, SeededEvents}
  /\ guardianResponses = <<>>
  /\ lastReply = Reply("none", 0, NoInfo)
  /\ received = [u \in AllUploadIds |-> [k \in FileTypes \X IndexStrs |-> 0]]
  /\ finalized = {}
  /\ nreq = 0
  /\ opened = [u \in AllUploadIds |-> [recordingId |-> Undefined, at |-> 0]]
  /\ now = 0
  /\ sms = [attempts |-> [c \in Contacts |-> 0], sent |-> 0, failed |-> 0]
  /\ accounts = [e \in Emails |-> IF e = "alice" THEN {BcryptHash("pw-alice")} ELSE {}]
  /\ users = [id \in Users \cup CrowdIds |->
               IF id \in CrowdIds
               THEN [isVolunteer |-> TRUE, location |-> {<<Meridian, CrowdLat(id)>>},
                     lastActive |-> {0}]
               ELSE [isVolunteer |-> FALSE, location |-> {<<0, 0>>}, lastActive |-> {}]]

\* ------------------------------------------------- SOSEvidence schema checks
EvidenceTypes == {"panic", "accident", "medical", "disaster", "manual"}
EvidenceFileTypes == {"video_front", "video_back", "audio", "photo"}
ShareTypes == {"family", "police", "emergency_services", "sos_logs"}

\* a validation that requires the owner only
SchemaValid_OwnerOnly(doc) == doc.userId # Undefined

\* document.save() validation of models/SOSEvidence.js: userId, sosId and type
\* are required, type, evidenceFiles[].type and sharedWith[].type are enums
SchemaValid(doc) ==
  /\ doc.userId # Undefined
  /\ doc.sosId # NoId
  /\ doc.type \in EvidenceTypes
  /\ \A i \in 1 .. Len(doc.evidenceFiles) : doc.evidenceFiles[i].type \in EvidenceFileTypes
  /\ \A i \in 1 .. Len(doc.sharedWith) : doc.sharedWith[i].type \in ShareTypes

\* --------------------------------------------------------- POST /upload-chunk
\* progress.json after the chunk (fileType, chunkIndex) of a stream declared
\* with totalChunks: the entry is created on the stream's first chunk, and
\* uploadedChunks is set to parseInt(chunkIndex) + 1
TrackProgress(p, ft, idxStr, total) ==
  LET k == ProgressIndex(p, ft)
      q == IF k = 0
           THEN Append(p, [fileType |-> ft, uploadedChunks |-> 0, totalChunks |-> total])
           ELSE p
      j == ProgressIndex(q, ft)
  IN  [q EXCEPT ![j].uploadedChunks = ParseInt(idxStr) + 1]

\* fields: "ok", or which part of the request is missing; recordingId is
\* only checked for presence
UploadChunk(tok, fields, u, recordingId, ft, idxStr, total, bytes) ==
  /\ nreq < MaxRequests
  /\ nreq' = nreq + 1
  /\ UNCHANGED <<now, users, sms, accounts>>
  /\ UNCHANGED <<finalFiles, finalized, dbVars>>
  /\ IF AuthStatus(tok) # 200
     THEN /\ lastReply' = Reply("upload-chunk", AuthStatus(tok), NoInfo)
          /\ UNCHANGED <<uploadDirs, chunkFiles, progress, received, opened>>
     ELSE IF fields # "ok"
     THEN /\ lastReply' = Reply("upload-chunk", 400, [error |-> fields])
          /\ UNCHANGED <<uploadDirs, chunkFiles, progress, received, opened>>
     ELSE /\ uploadDirs' = uploadDirs \cup {u}
          /\ opened' = IF u \in uploadDirs THEN opened
                       ELSE [opened EXCEPT ![u] = [recordingId |-> recordingId, at |-> now]]
          /\ chunkFiles' = [chunkFiles EXCEPT ![u][<<ft, idxStr>>] = bytes]
          /\ progress' = [progress EXCEPT ![u] = TrackProgress(@, ft, idxStr, total)]
          /\ received' = [received EXCEPT ![u][<<ft, idxStr>>] = @ + 1]
          /\ lastReply' = Reply("upload-chunk", 200,
                                [uploadId |-> u, fileType |-> ft,
                                 chunkIndex |-> ParseInt(idxStr),
                                 progress |-> progress'[u]])

\* ------------------------------------------------------ POST /finalize-upload
\* entries of progress.json whose uploadedChunks differs from totalChunks
IncompleteEntries(p) == {k \in 1 .. Len(p) : p[k].uploadedChunks # p[k].totalChunks}

\* the first entry the completeness loop rejects (Object.entries order)
FirstIncomplete(p) == CHOOSE k \in IncompleteEntries(p) : \A j \in IncompleteEntries(p) : k <= j

\* a write that puts the chunk before what is written already
WriteChunk_Prepend(written, chunkData) == <<chunkData>> \o written

\* writeStream.write(chunkData): the chunk goes after what is written already
WriteChunk(written, chunkData) == Append(written, chunkData)

\* the loop "for (let i = 0; i < totalChunks; i++)" of one stream, from index
\* i on: read chunk i (an exception when the file is missing ends the loop
\* with ok = FALSE), write it, unlink it
RECURSIVE AssembleStream(_, _, _, _, _)
AssembleStream(files, ft, i, n, written) ==
  IF i >= n
  THEN [files |-> files, written |-> written, ok |-> TRUE]
  ELSE IF files[<<ft, ToStr(i)>>] = NoFile
  THEN [files |-> files, written |-> written, ok |-> FALSE]
  ELSE AssembleStream([files EXCEPT ![<<ft, ToStr(i)>>] = NoFile], ft, i + 1, n,
                      WriteChunk(written, files[<<ft, ToStr(i)>>]))

\* the loop over Object.entries(progress), from entry k on: each stream's
\* final file is opened for writing (truncated) and assembled; a stream whose
\* loop ended in an exception is logged and left out of assembledFiles
RECURSIVE AssembleAll(_, _, _, _, _)
AssembleAll(p, k, files, finals, assembled) ==
  IF k > Len(p)
  THEN [files |-> files, finals |-> finals, assembled |-> assembled]
  ELSE LET r == AssembleStream(files, p[k].fileType, 0, p[k].totalChunks, <<>>)
       IN  AssembleAll(p, k + 1, r.files,
                       [finals EXCEPT ![p[k].fileType] = WrittenFile(r.written)],
                       IF r.ok THEN assembled \cup {p[k].fileType} ELSE assembled)

StreamsOf(p) == {p[k].fileType : k \in 1 .. Len(p)}

\* the Evidence document finalize builds; the schema is strict, so of the
\* fields passed to the constructor only userId is kept
FinalizeEvidenceDoc(tok) ==
  [userId |-> ReqUserId(tok), sosId |-> NoId, type |-> Undefined,
   evidenceFiles |-> <<>>, hash |-> Undefined, sharedWith |-> <<>>]

\* SOSEvent.findOneAndUpdate({recordingId}, ..., {upsert: true}): the SOS
\* schema has no recordingId path, so the filter matches no document (a new
\* one is inserted) or, when the filter is stripped, the first document
UpsertSOSEvent(events, userId, status, evidenceId) ==
  {Append(events, [userId |-> userId, status |-> status, evidence |-> evidenceId])}
    \cup (IF events = <<>> THEN {}
          ELSE {[events EXCEPT ![1] = [userId |-> userId, status |-> status,
                                        evidence |-> evidenceId]]})

FinalizeUpload(tok, fields, u, status) ==
  /\ nreq < MaxRequests
  /\ nreq' = nreq + 1
  /\ UNCHANGED <<now, users, sms, accounts>>
  /\ UNCHANGED <<progress, received, opened, guardianResponses>>
  /\ IF AuthStatus(tok) # 200
     THEN /\ lastReply' = Reply("finalize-upload", AuthStatus(tok), NoInfo)
          /\ UNCHANGED <<uploadDirs, chunkFiles, finalFiles, finalized, evidences, sosEvents>>
     ELSE IF fields # "ok"
     THEN /\ lastReply' = Reply("finalize-upload", 400, [error |-> fields])
          /\ UNCHANGED <<uploadDirs, chunkFiles, finalFiles, finalized, evidences, sosEvents>>
     ELSE IF u \notin uploadDirs
     THEN /\ lastReply' = Reply("finalize-upload", 404, [error |-> "Upload session not found"])
          /\ UNCHANGED <<uploadDirs, chunkFiles, finalFiles, finalized, evidences, sosEvents>>
     ELSE IF IncompleteEntries(progress[u]) # {}
     THEN /\ lastReply' = Reply("finalize-upload", 400,
                                [error |-> "Incomplete upload", uploadId |-> u,
                                 entry |-> progress[u][FirstIncomplete(progress[u])]])
          /\ UNCHANGED <<uploadDirs, chunkFiles, finalFiles, finalized, evidences, sosEvents>>
     ELSE LET r == AssembleAll(progress[u], 1, chunkFiles[u], finalFiles[u], {})
              assembled == r.assembled
              doc == FinalizeEvidenceDoc(tok)
          IN  /\ chunkFiles' = [chunkFiles EXCEPT ![u] = r.files]
              /\ finalFiles' = [finalFiles EXCEPT ![u] = r.finals]
              /\ finalized' = IF assembled = StreamsOf(progress[u])
                              THEN finalized \cup {u} ELSE finalized
              /\ UNCHANGED uploadDirs
              /\ IF SchemaValid(doc)
                 THEN \* (the directory is removed by a timer 5 s after this reply)
                      /\ evidences' = Append(evidences, doc)
                      /\ sosEvents' \in UpsertSOSEvent(sosEvents, doc.userId, status,
                                                       Len(evidences) + 1)
                      /\ lastReply' = Reply("finalize-upload", 200,
                                            [uploadId |-> u, assembled |-> assembled,
                                             evidenceId |-> Len(evidences) + 1])
                 ELSE \* evidence.save() rejects; the catch block answers
                      /\ UNCHANGED <<evidences, sosEvents>>
                      /\ lastReply' = Reply("finalize-upload", 500,
                                            [uploadId |-> u, assembled |-> assembled,
                                             evidenceId |-> NoId])

\* ------------------------------------------------------------ evidence ledger
\* The two routers that define the ledger routes: routes/evidenceRoutes.js,
\* mounted at /api/evidence, and the stand-alone evidence router.
Routers == {"evidenceRoutes", "evidence"}

\* whether the identifier SOSEvidence is bound in the router's module:
\* evidenceRoutes.js imports the model under the name Evidence only
SOSEvidenceBound(router) == router # "evidenceRoutes"

UploadedFiles ==
  LET f1 == [filename |-> "front.mp4", data |-> "d1", mimetype |-> "video/mp4"]
      f2 == [filename |-> "voice.wav", data |-> "d2", mimetype |-> "audio/wav"]
  IN  {<<>>, <<f1>>, <<f1, f2>>, <<f2, f1>>}

getEvidenceType(mimetype) ==
  CASE mimetype \in {"video/mp4", "video/avi"} -> "video_front"
    [] mimetype \in {"audio/mpeg", "audio/wav"} -> "audio"
    [] mimetype \in {"image/jpeg", "image/png"} -> "photo"
    [] OTHER -> "unknown"

\* crypto.createHash('sha256').update(x).digest('hex'), collision-free
Sha256(x) == <<"sha256", x>>

\* buffer.toString('base64') and Buffer.from(s, 'base64')
ToBase64(data) == <<"base64", data>>
FromBase64(s) == s[2]

\* evidence.hash: the hash of fileHashes.join(''), the per-file hashes in the
\* order the files were submitted
CombinedHash(files) == Sha256([i \in 1 .. Len(files) |-> Sha256(files[i].data)])

\* the document POST /upload builds; secureUrl carries 16 random bytes,
\* modelled as a value no other file has; uploadedAt is the schema default
\* Date.now
UploadEvidenceDoc(tok, files, sosId, type, id) ==
  [userId |-> ReqUserId(tok), sosId |-> sosId, type |-> type,
   evidenceFiles |-> [i \in 1 .. Len(files) |->
                        [type |-> getEvidenceType(files[i].mimetype),
                         filename |-> files[i].filename,
                         data |-> ToBase64(files[i].data),
                         secureUrl |-> <<id, i>>,
                         mimeType |-> files[i].mimetype,
                         uploadedAt |-> now]],
   hash |-> CombinedHash(files), sharedWith |-> <<>>]

\* POST /upload
UploadEvidence(router, tok, files, sosId, type) ==
  /\ nreq < MaxRequests
  /\ nreq' = nreq + 1
  /\ UNCHANGED <<now, users, sms, accounts>>
  /\ UNCHANGED <<chunkVars, sosEvents, guardianResponses>>
  /\ IF AuthStatus(tok) # 200
     THEN /\ lastReply' = Reply("upload", AuthStatus(tok), NoInfo)
          /\ UNCHANGED evidences
     ELSE IF files = <<>>
     THEN /\ lastReply' = Reply("upload", 400, [error |-> "No evidence files provided"])
          /\ UNCHANGED evidences
     ELSE LET doc == UploadEvidenceDoc(tok, files, sosId, type, Len(evidences) + 1)
          IN  IF SOSEvidenceBound(router) /\ SchemaValid(doc)
              THEN /\ evidences' = Append(evidences, doc)
                   /\ lastReply' = Reply("upload", 200,
                                         [id |-> Len(evidences) + 1, hash |-> doc.hash])
              ELSE \* ReferenceError or ValidationError, caught
                   /\ lastReply' = Reply("upload", 500, [error |-> "Server error"])
                   /\ UNCHANGED evidences

\* SOSEvidence.findOne({_id, userId: req.user.id}): the record's position, or
\* NoId when no record has that id and owner
FindOwnEvidence(recs, evidenceId, userId) ==
  IF evidenceId \in 1 .. Len(recs) /\ recs[evidenceId].userId = userId
  THEN evidenceId
  ELSE NoId

\* shareWith.map(type => ({type, sharedAt: new Date()}))
ShareRecords(shareWith, date) ==
  [i \in 1 .. Len(shareWith) |-> [type |-> shareWith[i], sharedAt |-> date]]

\* an assignment of the new records in place of the push
PushShares_Assign(sharedWith, shareRecords) == shareRecords

\* evidence.sharedWith.push(...shareRecords)
PushShares(sharedWith, shareRecords) == sharedWith \o shareRecords

\* a share that also recomputes the hash, over the record's share list
WithShares_Rehash(evidence, shareRecords) ==
  [evidence EXCEPT !.sharedWith = PushShares(@, shareRecords),
                   !.hash = Sha256([i \in 1 .. Len(shareRecords) |->
                                      Sha256(shareRecords[i].type)])]

\* the document after the push of the share records: no other path is set
WithShares(evidence, shareRecords) ==
  [evidence EXCEPT !.sharedWith = PushShares(@, shareRecords)]

\* PUT /:evidenceId/share
ShareEvidence(router, tok, fields, evidenceId, shareWith) ==
  /\ nreq < MaxRequests
  /\ nreq' = nreq + 1
  /\ UNCHANGED <<now, users, sms, accounts>>
  /\ UNCHANGED <<chunkVars, sosEvents, guardianResponses>>
  /\ IF AuthStatus(tok) # 200
     THEN /\ lastReply' = Reply("share", AuthStatus(tok), NoInfo)
          /\ UNCHANGED evidences
     ELSE IF ~SOSEvidenceBound(router)
     THEN \* ReferenceError at SOSEvidence.findOne, caught
          /\ lastReply' = Reply("share", 500, [error |-> "Server error"])
          /\ UNCHANGED evidences
     ELSE IF FindOwnEvidence(evidences, evidenceId, ReqUserId(tok)) = NoId
     THEN /\ lastReply' = Reply("share", 404, [error |-> "Evidence not found"])
          /\ UNCHANGED evidences
     ELSE IF fields # "ok"
     THEN \* shareWith is undefined: TypeError at shareWith.map, caught
          /\ lastReply' = Reply("share", 500, [error |-> "Server error"])
          /\ UNCHANGED evidences
     ELSE LET doc == WithShares(evidences[evidenceId], ShareRecords(shareWith, nreq + 1))
          IN  IF SchemaValid(doc)
              THEN /\ evidences' = [evidences EXCEPT ![evidenceId] = doc]
                   /\ lastReply' = Reply("share", 200, [sharedWith |-> doc.sharedWith])
              ELSE /\ lastReply' = Reply("share", 500, [error |-> "Server error"])
                   /\ UNCHANGED evidences

\* GET /sos/:sosId
GetEvidenceForSos(router, tok, sosId) ==
  /\ nreq < MaxRequests
  /\ nreq' = nreq + 1
  /\ UNCHANGED <<now, users, sms, accounts>>
  /\ UNCHANGED <<chunkVars, dbVars>>
  /\ lastReply' =
       IF AuthStatus(tok) # 200 THEN Reply("sos-evidence", AuthStatus(tok), NoInfo)
       ELSE IF ~SOSEvidenceBound(router)
       THEN Reply("sos-evidence", 500, [error |-> "Server error"])
       ELSE Reply("sos-evidence", 200,
                  [evidence |-> {i \in 1 .. Len(evidences) :
                                   /\ evidences[i].sosId = sosId
                                   /\ evidences[i].userId = ReqUserId(tok)}])

\* GET /events/:eventId
GetEvent(tok, eventId) ==
  /\ nreq < MaxRequests
  /\ nreq' = nreq + 1
  /\ UNCHANGED <<now, users, sms, accounts>>
  /\ UNCHANGED <<chunkVars, dbVars>>
  /\ lastReply' =
       IF AuthStatus(tok) # 200 THEN Reply("get-event", AuthStatus(tok), NoInfo)
       ELSE IF eventId \notin 1 .. Len(sosEvents)
       THEN Reply("get-event", 404, [error |-> "Event not found"])
       ELSE IF sosEvents[eventId].userId # ReqUserId(tok)
       THEN Reply("get-event", 403, [error |-> "Access denied"])
       ELSE Reply("get-event", 200, [event |-> sosEvents[eventId]])

\* a handler that removes the event it is asked to delete
AfterDeleteEvent_Remove(events, eventId) ==
  IF eventId \in 1 .. Len(events)
  THEN SubSeq(events, 1, eventId - 1) \o SubSeq(events, eventId + 1, Len(events))
  ELSE events

\* the SOS collection after DELETE /events/:eventId: the handler answers 403
\* and does not touch it
AfterDeleteEvent(events, eventId) == events

\* DELETE /events/:eventId
DeleteEvent(tok, eventId) ==
  /\ nreq < MaxRequests
  /\ nreq' = nreq + 1
  /\ UNCHANGED <<now, users, sms, accounts>>
  /\ UNCHANGED <<chunkVars, evidences, guardianResponses>>
  /\ IF AuthStatus(tok) # 200
     THEN /\ lastReply' = Reply("delete-event", AuthStatus(tok), NoInfo)
          /\ UNCHANGED sosEvents
     ELSE /\ sosEvents' = AfterDeleteEvent(sosEvents, eventId)
          /\ lastReply' = Reply("delete-event", 403,
                                [error |-> "Access denied", eventId |-> eventId])

\* ---------------------------------------------------------- evidence access
SignedUrlTtlHours == 1    \* _generateSignedToken(recordingId, fileType, 3600)

\* the secure URLs a client can present: <<record, file>> of POST /upload
FileTokens == (1 .. MaxRequests) \X (1 .. 2)

\* SOSEvidence.findOne({'evidenceFiles.secureUrl': url, userId}) followed by
\* evidenceFiles.find(f => f.secureUrl === url): the <<record, file>>
\* positions that match
FindFileByToken(recs, token, userId) ==
  {h \in (1 .. Len(recs)) \X (1 .. 2) :
     /\ recs[h[1]].userId = userId
     /\ h[2] <= Len(recs[h[1]].evidenceFiles)
     /\ recs[h[1]].evidenceFiles[h[2]].secureUrl = token}

\* GET /file/:token: the URL stored with the file at upload is looked up
\* among the caller's records; no issue time or expiry is read
GetFile(router, tok, token) ==
  /\ nreq < MaxRequests
  /\ nreq' = nreq + 1
  /\ UNCHANGED <<chunkVars, dbVars, now, users, sms, accounts>>
  /\ lastReply' =
       IF AuthStatus(tok) # 200 THEN Reply("file", AuthStatus(tok), NoInfo)
       ELSE IF ~SOSEvidenceBound(router)
       THEN Reply("file", 500, [error |-> "Server error"])
       ELSE IF FindFileByToken(evidences, token, ReqUserId(tok)) = {}
       THEN Reply("file", 404, [error |-> "File not found"])
       ELSE LET h == CHOOSE x \in FindFileByToken(evidences, token, ReqUserId(tok)) : TRUE
                file == evidences[h[1]].evidenceFiles[h[2]]
            IN  Reply("file", 200, [body |-> FromBase64(file.data),
                                    filename |-> file.filename,
                                    mimeType |-> file.mimeType])

\* evidence.frontVideoUrl, evidence.backVideoUrl, evidence.audioUrl: the
\* SOSEvidence schema has no such path, so a document read from the
\* collection has none of them
UrlFields == {"frontVideoUrl", "backVideoUrl", "audioUrl"}
DocUrl(doc, field) == Undefined

\* _generateSignedToken: the payload; the HMAC signature is a function of it
GenerateSignedToken(recordingId, fileType, expiresIn) ==
  [recordingId |-> recordingId, fileType |-> fileType, issuedAt |-> now,
   expiresAt |-> now + expiresIn]

\* signedUrls: a token is generated for each URL field the document has
SignedUrls(doc, recordingId) ==
  {[url |-> DocUrl(doc, f), token |-> GenerateSignedToken(recordingId, f, SignedUrlTtlHours)] :
     f \in {g \in UrlFields : DocUrl(doc, g) # Undefined}}

\* Evidence.findOne({recordingId}): the schema has no recordingId path, so
\* the filter matches no document or, when the filter is stripped, the
\* first document
FindByRecordingId(recs) == {NoId} \cup (IF recs = <<>> THEN {} ELSE {1})

\* GET /:recordingId
GetRecording(tok, recordingId) ==
  /\ nreq < MaxRequests
  /\ nreq' = nreq + 1
  /\ UNCHANGED <<chunkVars, dbVars, now, users, sms, accounts>>
  /\ IF AuthStatus(tok) # 200
     THEN lastReply' = Reply("get-recording", AuthStatus(tok), NoInfo)
     ELSE \E found \in FindByRecordingId(evidences) :
            lastReply' =
              IF found = NoId
              THEN Reply("get-recording", 404, [error |-> "Evidence not found"])
              ELSE IF evidences[found].userId # ReqUserId(tok)
              THEN Reply("get-recording", 403, [error |-> "Access denied - not your evidence"])
              ELSE Reply("get-recording", 200,
                         [evidence |-> found,
                          urls |-> SignedUrls(evidences[found], recordingId)])

\* GET /uploads/evidence/<uploadId>/<fileType>_final.enc: express.static is
\* mounted on the uploads directory before any route, without authentication
ServeStatic(u, ft) ==
  /\ nreq < MaxRequests
  /\ nreq' = nreq + 1
  /\ UNCHANGED <<chunkVars, dbVars, now, users, sms, accounts>>
  /\ lastReply' =
       IF u \in uploadDirs /\ finalFiles[u][ft].exists
       THEN Reply("static", 200, [body |-> finalFiles[u][ft].content])
       ELSE Reply("static", 404, NoInfo)

\* ------------------------------------------------------ POST /api/sos/start
SOSTypes == {"manual", "accident", "panic", "shake", "power", "voice", "card"}
SOSStatuses == {"active", "resolved", "cancelled"}
SOSTypeInputs == {Undefined, "panic", "fire"}

\* the auth middleware of index.js: 401 without a Bearer header, when
\* jwt.verify throws, and when the payload has no userId; otherwise req.user
\* is set to the userId string itself
IndexAuthStatus(tok) == IF tok.kind = "userId" THEN 200 ELSE 401
IndexReqUser(tok) == tok.uid

\* a property read on a string primitive, such as req.user.userId
StringProperty(str, name) == Undefined

\* new SOS({userId: req.user.userId, ..., status: 'active'})
SOSRecord(tok) ==
  [userId |-> StringProperty(IndexReqUser(tok), "userId"), status |-> "active",
   evidence |-> NoId]

\* sosRecord.save() validation: userId is required, type (type || 'manual')
\* and status are enums
SOSSchemaValid(doc, type) ==
  /\ doc.userId # Undefined
  /\ (IF type = Undefined THEN "manual" ELSE type) \in SOSTypes
  /\ doc.status \in SOSStatuses

StartSOS(tok, type) ==
  /\ nreq < MaxRequests
  /\ nreq' = nreq + 1
  /\ UNCHANGED <<chunkVars, evidences, guardianResponses, now, users, sms, accounts>>
  /\ IF IndexAuthStatus(tok) # 200
     THEN /\ lastReply' = Reply("sos-start", IndexAuthStatus(tok), NoInfo)
          /\ UNCHANGED sosEvents
     ELSE IF SOSSchemaValid(SOSRecord(tok), type)
     THEN /\ sosEvents' = Append(sosEvents, SOSRecord(tok))
          /\ lastReply' = Reply("sos-start", 200,
                                [sosId |-> Len(sosEvents) + 1, status |-> "active"])
     ELSE \* save() rejects; the catch block answers
          /\ UNCHANGED sosEvents
          /\ lastReply' = Reply("sos-start", 500, [error |-> "Failed to log SOS"])

\* ------------------------------------------------------------ login routes
\* the two sets of login routes: routes/authRoutes (mounted at /auth) and the
\* /api/auth routes of index.js
LoginEndpoints == {"authRoutes", "index"}
PasswordInputs == Passwords \cup {Undefined}

\* jwt.sign({userId: user._id}, secret, {expiresIn: '7d'}); a user's _id is
\* written as the email
IssuedToken(uid) == [kind |-> "userId", uid |-> uid]

\* bcrypt.compare(password, stored): false for a stored value that is not a
\* bcrypt hash
BcryptCompare(password, stored) == stored.scheme = "bcrypt" /\ stored.of = password

\* the password check of each login route: authRoutes skips the comparison
\* when the stored value is the placeholder, index.js always compares
PasswordAccepted(endpoint, password, stored) ==
  IF endpoint = "authRoutes" /\ stored = GoogleAuth
  THEN TRUE
  ELSE BcryptCompare(password, stored)

\* POST /auth/login and POST /api/auth/login
Login(endpoint, email, password) ==
  /\ nreq < MaxRequests
  /\ nreq' = nreq + 1
  /\ UNCHANGED <<chunkVars, dbVars, now, users, sms, accounts>>
  /\ lastReply' =
       IF endpoint = "authRoutes" /\ password = Undefined
       THEN Reply("login", 400, [error |-> "Email and password are required"])
       ELSE IF accounts[email] = {}
       THEN Reply("login", IF endpoint = "authRoutes" THEN 401 ELSE 400,
                  [error |-> "Invalid credentials"])
       ELSE IF password = Undefined
       THEN \* bcrypt.compare throws on a missing argument, caught
            Reply("login", 500, [error |-> "Server error"])
       ELSE IF ~\A stored \in accounts[email] : PasswordAccepted(endpoint, password, stored)
       THEN Reply("login", IF endpoint = "authRoutes" THEN 401 ELSE 400,
                  [error |-> "Invalid credentials"])
       ELSE Reply("login", 200, [token |-> IssuedToken(email)])

\* POST /auth/register and POST /api/auth/register
RegisterAccount(endpoint, email, password) ==
  /\ nreq < MaxRequests
  /\ nreq' = nreq + 1
  /\ UNCHANGED <<chunkVars, dbVars, now, users, sms>>
  /\ IF endpoint = "authRoutes" /\ password = Undefined
     THEN /\ lastReply' = Reply("register-account", 400,
                                [error |-> "Email, password, and name are required"])
          /\ UNCHANGED accounts
     ELSE IF accounts[email] # {}
     THEN /\ lastReply' = Reply("register-account", 400, [error |-> "User already exists"])
          /\ UNCHANGED accounts
     ELSE IF password = Undefined
     THEN \* bcrypt.hash throws on a missing argument, caught
          /\ lastReply' = Reply("register-account", 500, [error |-> "Server error"])
          /\ UNCHANGED accounts
     ELSE /\ accounts' = [accounts EXCEPT ![email] = {BcryptHash(password)}]
          /\ lastReply' = Reply("register-account", 201, [token |-> IssuedToken(email)])

\* POST /auth/google and POST /api/auth/google; verified: Google vouches for
\* the ID token, which names the email
GoogleSignIn(endpoint, email, verified) ==
  /\ nreq < MaxRequests
  /\ nreq' = nreq + 1
  /\ UNCHANGED <<chunkVars, dbVars, now, users, sms>>
  /\ IF ~verified
     THEN /\ lastReply' = Reply("google", 401, [error |-> "Invalid Google token"])
          /\ UNCHANGED accounts
     ELSE /\ accounts' = IF accounts[email] = {}
                         THEN [accounts EXCEPT ![email] = {GoogleAuth}]
                         ELSE accounts
          /\ lastReply' = Reply("google", 200, [token |-> IssuedToken(email)])

\* ------------------------------------- POST /guardians/:guardianId/respond
Guardians == {"g1", "g2"}
ResponseActions == {"ACCEPTED", "DECLINED"}

\* the handler builds the response and answers; both writes of the response
\* (GuardianResponse.create, SOSEvent.updateOne) are commented out
RespondGuardian(guardianId, sosEventId, action) ==
  /\ nreq < MaxRequests
  /\ nreq' = nreq + 1
  /\ UNCHANGED <<now, users, sms, accounts>>
  /\ UNCHANGED <<chunkVars, dbVars>>
  /\ lastReply' = Reply("respond", 200,
                        [guardianId |-> guardianId, sosEventId |-> sosEventId,
                         action |-> action, respondedAt |-> nreq + 1])

\* ------------------------------------------------------- volunteer network
DayHours == 24        \* 24 * 60 * 60 * 1000 ms
NearbyLimit == 20     \* .limit(20)
AlertLimit == 10      \* .limit(10)
AlertRadius == 5000   \* $maxDistance: 5000
MetersPerMilliDegree == 111   \* R * pi / 180 / 1000 for R = 6371e3, whole metres

\* calculateDistance / $near distance, in metres, of two points of the meridian
calculateDistance(p, q) ==
  (IF p[2] >= q[2] THEN p[2] - q[2] ELSE q[2] - p[2]) * MetersPerMilliDegree

\* a cutoff of 48 hours
ActiveCutoff_TwoDays(t) == t - 2 * DayHours

\* new Date(Date.now() - 24 * 60 * 60 * 1000)
ActiveCutoff(t) == t - DayHours

\* the documents the filter {isVolunteer: true, volunteerLastActive: {$gte},
\* volunteerLocation: {$near: {$geometry, $maxDistance}}} matches
MatchingVolunteers(q, radius) ==
  {id \in DOMAIN users :
     /\ users[id].isVolunteer
     /\ \E t \in users[id].lastActive : t >= ActiveCutoff(now)
     /\ \E p \in users[id].location : calculateDistance(p, q) <= radius}

\* $near sorts by distance and .limit(k) keeps the first k: the possible
\* result sets, one for each way equidistant documents can be ordered
NearestSets(pool, q, k) ==
  LET Dist(id) == calculateDistance(CHOOSE p \in users[id].location : TRUE, q)
      Within(d) == {id \in pool : Dist(id) < d}
      UpTo(d) == {id \in pool : Dist(id) <= d}
  IN  IF Cardinality(pool) <= k THEN {pool}
      ELSE LET d == CHOOSE x \in {Dist(id) : id \in pool} :
                      Cardinality(Within(x)) < k /\ k <= Cardinality(UpTo(x))
           IN  {Within(d) \cup T :
                  T \in {X \in SUBSET (UpTo(d) \ Within(d)) :
                           Cardinality(X) = k - Cardinality(Within(d))}}

\* the JavaScript test !x of a coordinate sent as a JSON number
Falsy(x) == x = 0

\* POST /register
RegisterVolunteer(tok, fields, latitude, longitude) ==
  /\ nreq < MaxRequests
  /\ nreq' = nreq + 1
  /\ UNCHANGED <<chunkVars, dbVars, now, sms, accounts>>
  /\ IF AuthStatus(tok) # 200
     THEN /\ lastReply' = Reply("register", AuthStatus(tok), NoInfo)
          /\ UNCHANGED users
     ELSE IF fields # "ok" \/ Falsy(latitude) \/ Falsy(longitude)
     THEN /\ lastReply' = Reply("register", 400, [error |-> "Location coordinates required"])
          /\ UNCHANGED users
     ELSE IF ReqUserId(tok) \notin DOMAIN users
     THEN /\ lastReply' = Reply("register", 404, [error |-> "User not found"])
          /\ UNCHANGED users
     ELSE /\ users' = [users EXCEPT ![ReqUserId(tok)] =
                         [isVolunteer |-> TRUE, location |-> {<<longitude, latitude>>},
                          lastActive |-> {now}]]
          /\ lastReply' = Reply("register", 200, [volunteer |-> users'[ReqUserId(tok)]])

\* PUT /location
UpdateLocation(tok, fields, latitude, longitude) ==
  /\ nreq < MaxRequests
  /\ nreq' = nreq + 1
  /\ UNCHANGED <<chunkVars, dbVars, now, sms, accounts>>
  /\ IF AuthStatus(tok) # 200
     THEN /\ lastReply' = Reply("location", AuthStatus(tok), NoInfo)
          /\ UNCHANGED users
     ELSE IF fields # "ok" \/ Falsy(latitude) \/ Falsy(longitude)
     THEN /\ lastReply' = Reply("location", 400, [error |-> "Location coordinates required"])
          /\ UNCHANGED users
     ELSE IF ReqUserId(tok) \notin DOMAIN users \/ ~users[ReqUserId(tok)].isVolunteer
     THEN /\ lastReply' = Reply("location", 404, [error |-> "Volunteer not found"])
          /\ UNCHANGED users
     ELSE /\ users' = [users EXCEPT ![ReqUserId(tok)].location = {<<longitude, latitude>>},
                                    ![ReqUserId(tok)].lastActive = {now}]
          /\ lastReply' = Reply("location", 200,
                                [location |-> {<<longitude, latitude>>}, lastActive |-> {now}])

\* DELETE /unregister
UnregisterVolunteer(tok) ==
  /\ nreq < MaxRequests
  /\ nreq' = nreq + 1
  /\ UNCHANGED <<chunkVars, dbVars, now, sms, accounts>>
  /\ IF AuthStatus(tok) # 200
     THEN /\ lastReply' = Reply("unregister", AuthStatus(tok), NoInfo)
          /\ UNCHANGED users
     ELSE IF ReqUserId(tok) \notin DOMAIN users
     THEN /\ lastReply' = Reply("unregister", 404, [error |-> "User not found"])
          /\ UNCHANGED users
     ELSE /\ users' = [users EXCEPT ![ReqUserId(tok)] =
                         [isVolunteer |-> FALSE, location |-> {}, lastActive |-> {}]]
          /\ lastReply' = Reply("unregister", 200, NoInfo)

\* GET /nearby/:lat/:lng/:radius; the parameters are path segments, non-empty
\* strings that the handler parses with parseFloat
NearbyVolunteers(tok, lat, lng, radius) ==
  /\ nreq < MaxRequests
  /\ nreq' = nreq + 1
  /\ UNCHANGED <<chunkVars, dbVars, now, users, sms, accounts>>
  /\ IF AuthStatus(tok) # 200
     THEN lastReply' = Reply("nearby", AuthStatus(tok), NoInfo)
     ELSE \E volunteers \in NearestSets(MatchingVolunteers(<<lng, lat>>, radius),
                                        <<lng, lat>>, NearbyLimit) :
            lastReply' = Reply("nearby", 200,
                               [count |-> Cardinality(volunteers), volunteers |-> volunteers])

\* POST /alert-nearby
AlertNearby(tok, fields, latitude, longitude) ==
  /\ nreq < MaxRequests
  /\ nreq' = nreq + 1
  /\ UNCHANGED <<chunkVars, dbVars, now, users, sms, accounts>>
  /\ IF AuthStatus(tok) # 200
     THEN lastReply' = Reply("alert-nearby", AuthStatus(tok), NoInfo)
     ELSE IF fields # "ok" \/ Falsy(latitude) \/ Falsy(longitude)
     THEN lastReply' = Reply("alert-nearby", 400,
                             [error |-> "Location coordinates and emergency type required"])
     ELSE \E volunteers \in NearestSets(MatchingVolunteers(<<longitude, latitude>>, AlertRadius),
                                        <<longitude, latitude>>, AlertLimit) :
            lastReply' = Reply("alert-nearby", 200,
                               [alerted |-> Cardinality(volunteers), volunteers |-> volunteers])

\* ------------------------------------------------------- offline SMS alerts
\* a send that tries a contact a second time after a provider error
CreateCalls_RetryOnce(providerFails) == IF providerFails THEN 2 ELSE 1

\* the client.messages.create calls made for one contact: one, inside a
\* try/catch that logs the provider's error and returns {success: false}
CreateCalls(providerFails) == 1

\* sendEmergencySMS(contacts, alertData); configured: the Twilio credentials
\* are set; rejected: the contacts for which messages.create rejects
SendEmergencySMS(contacts, configured, rejected) ==
  /\ nreq < MaxRequests
  /\ nreq' = nreq + 1
  /\ UNCHANGED <<chunkVars, dbVars, lastReply, now, users, accounts>>
  /\ IF ~configured
     THEN sms' = [attempts |-> [c \in Contacts |-> 0], sent |-> 0,
                  failed |-> Cardinality(contacts)]
     ELSE sms' = [attempts |-> [c \in Contacts |->
                                  IF c \in contacts THEN CreateCalls(c \in rejected) ELSE 0],
                  sent |-> Cardinality(contacts \ rejected),
                  failed |-> Cardinality(contacts) - Cardinality(contacts \ rejected)]

\* ------------------------------------------------- GET /stream/:sessionId
NoResponse == 0       \* status of a request the handler never answers

\* !req.headers.upgrade?.toLowerCase(): the negation is applied first and
\* gives a boolean
NotUpgrade(upgrade) == upgrade = Undefined

\* <boolean> === 'websocket': a boolean is never strictly equal to a string
StrictEqualsWebsocket(b) == FALSE

\* the handler answers 400 inside the if and nothing after it: the upgrade
\* itself is commented out
GetStream(sessionId, upgrade) ==
  /\ nreq < MaxRequests
  /\ nreq' = nreq + 1
  /\ UNCHANGED <<chunkVars, dbVars, now, users, sms, accounts>>
  /\ lastReply' = IF StrictEqualsWebsocket(NotUpgrade(upgrade))
                  THEN Reply("stream", 400, [error |-> "WebSocket upgrade required"])
                  ELSE Reply("stream", NoResponse, NoInfo)

\* ------------------------------------------------------------ specification
RequestFields == {"ok", "missing"}
EventIds == 1 .. 2
MetadataStatus == {"confirmed", "resolved"}

\* one caller's tokens of each kind, for the routes that do not read the
\* caller's identity or read it only into a document
CallerTokens == {tok \in Tokens : tok.uid \in {Undefined, "alice"}}

\* the tokens of the ledger routes: two callers with an id, one without
LedgerTokens == {tok \in Tokens : tok.kind = "userId" => tok.uid = "alice"}

\* a field the handler does not get to read is enumerated with one value only
First(S) == CHOOSE x \in S : TRUE
Vary(read, S) == IF read THEN S ELSE {First(S)}
Accepted(tok, fields) == AuthStatus(tok) = 200 /\ fields = "ok"

ChunkNext ==
  \/ \E tok \in CallerTokens \ {[kind |-> "id", uid |-> "alice"]}, fields \in RequestFields :
       \E u \in Vary(Accepted(tok, fields), UploadIds),
          ft \in Vary(Accepted(tok, fields), FileTypes),
          idxStr \in Vary(Accepted(tok, fields), IndexStrs),
          total \in Vary(Accepted(tok, fields), TotalChunksInputs),
          bytes \in Vary(Accepted(tok, fields), ChunkBytes) :
         UploadChunk(tok, fields, u, First(RecordingIds), ft, idxStr, total, bytes)
  \/ \E tok \in CallerTokens, fields \in RequestFields :
       \E u \in Vary(Accepted(tok, fields), UploadIds),
          status \in Vary(FALSE, MetadataStatus) :
         FinalizeUpload(tok, fields, u, status)

LedgerNext ==
  \/ \E router \in Routers, tok \in LedgerTokens :
       \E files \in Vary(AuthStatus(tok) = 200, UploadedFiles) :
         \E sosId \in Vary(Accepted(tok, "ok") /\ SOSEvidenceBound(router) /\ files # <<>>,
                           {NoId} \cup EventIds),
            type \in Vary(Accepted(tok, "ok") /\ SOSEvidenceBound(router) /\ files # <<>>,
                          {"panic", Undefined}) :
           UploadEvidence(router, tok, files, sosId, type)
  \/ \E router \in Routers, tok \in LedgerTokens :
       \E evidenceId \in Vary(Accepted(tok, "ok") /\ SOSEvidenceBound(router), 1 .. MaxRequests) :
         \E fields \in Vary(FindOwnEvidence(evidences, evidenceId, ReqUserId(tok)) # NoId,
                            RequestFields),
            shareWith \in Vary(FindOwnEvidence(evidences, evidenceId, ReqUserId(tok)) # NoId,
                               {<<"police">>, <<"family", "police">>, <<"press">>}) :
           ShareEvidence(router, tok, fields, evidenceId, shareWith)
  \/ \E router \in Routers, tok \in LedgerTokens :
       \E sosId \in Vary(Accepted(tok, "ok") /\ SOSEvidenceBound(router), EventIds) :
         GetEvidenceForSos(router, tok, sosId)
  \/ \E tok \in LedgerTokens :
       \E eventId \in Vary(AuthStatus(tok) = 200, EventIds) : GetEvent(tok, eventId)
  \/ \E tok \in CallerTokens, eventId \in EventIds : DeleteEvent(tok, eventId)

\* time passes
Tick ==
  /\ now < MaxTicks * TickHours
  /\ now' = now + TickHours
  /\ UNCHANGED <<chunkVars, dbVars, lastReply, nreq, users, sms, accounts>>

\* the chunked upload as clients with several upload ids drive it: every
\* chunk carries an uploadId and a recordingId of the client's choosing
SessionTokens == {[kind |-> "userId", uid |-> "alice"]}
SessionNext ==
  \/ \E tok \in SessionTokens, u \in AllUploadIds, recordingId \in RecordingIds,
        ft \in FileTypes, idxStr \in IndexStrs :
       UploadChunk(tok, "ok", u, recordingId, ft, idxStr, MaxChunks, First(ChunkBytes))
  \/ \E tok \in SessionTokens, u \in AllUploadIds :
       FinalizeUpload(tok, "ok", u, First(MetadataStatus))

\* the tokens of the volunteer routes: two callers with an id, one without
VolunteerTokens == LedgerTokens

VolunteerNext ==
  \/ \E tok \in VolunteerTokens, fields \in RequestFields :
       \E latitude \in Vary(Accepted(tok, fields), Latitudes) :
         RegisterVolunteer(tok, fields, latitude, Meridian)
  \/ \E tok \in VolunteerTokens, fields \in RequestFields :
       \E latitude \in Vary(Accepted(tok, fields), Latitudes) :
         UpdateLocation(tok, fields, latitude, Meridian)
  \/ \E tok \in VolunteerTokens : UnregisterVolunteer(tok)
  \/ \E tok \in CallerTokens :
       \E lat \in Vary(AuthStatus(tok) = 200, Latitudes),
          radius \in Vary(AuthStatus(tok) = 200, Radiuses) :
         NearbyVolunteers(tok, lat, Meridian, radius)
  \/ \E tok \in CallerTokens, fields \in RequestFields :
       \E latitude \in Vary(Accepted(tok, fields), Latitudes) :
         AlertNearby(tok, fields, latitude, Meridian)

ChannelNext ==
  \/ \E contacts \in SUBSET Contacts, configured \in BOOLEAN :
       \E rejected \in Vary(configured, SUBSET contacts) :
         SendEmergencySMS(contacts, configured, rejected)
  \/ \E sessionId \in StreamSessionIds, upgrade \in UpgradeHeaders :
       GetStream(sessionId, upgrade)

\* the callers of the access routes: alice, bob, and a caller without a token
AccessTokens == {tok \in Tokens : tok.kind \in {"id", "none"}}
Owner == [kind |-> "id", uid |-> "alice"]

\* evidence is stored by alice, through the chunked upload and through POST
\* /upload, and then asked for by each caller, at any later time
AccessNext ==
  \/ \E u \in UploadIds, idxStr \in IndexStrs :
       UploadChunk(Owner, "ok", u, First(RecordingIds), First(FileTypes), idxStr,
                   MaxChunks, First(ChunkBytes))
  \/ \E u \in UploadIds : FinalizeUpload(Owner, "ok", u, First(MetadataStatus))
  \/ \E u \in UploadIds, ft \in FileTypes : ServeStatic(u, ft)
  \/ \E files \in {f \in UploadedFiles : Len(f) = 1} :
       UploadEvidence("evidence", Owner, files, 1, "panic")
  \/ \E router \in Routers, tok \in AccessTokens :
       \E token \in Vary(AuthStatus(tok) = 200 /\ SOSEvidenceBound(router), FileTokens) :
         GetFile(router, tok, token)
  \/ \E tok \in AccessTokens : GetRecording(tok, First(RecordingIds))
  \/ \E tok \in AccessTokens :
       \E eventId \in Vary(AuthStatus(tok) = 200, EventIds) : GetEvent(tok, eventId)

\* an incident's life: it is raised, evidence is uploaded and finalized for
\* it, guardians respond, its owner reads it and asks to delete it
IncidentNext ==
  \/ \E tok \in CallerTokens :
       \E type \in Vary(IndexAuthStatus(tok) = 200, SOSTypeInputs) : StartSOS(tok, type)
  \/ \E u \in UploadIds, idxStr \in IndexStrs :
       UploadChunk(Owner, "ok", u, First(RecordingIds), First(FileTypes), idxStr,
                   MaxChunks, First(ChunkBytes))
  \/ \E u \in UploadIds, status \in MetadataStatus : FinalizeUpload(Owner, "ok", u, status)
  \/ \E eventId \in EventIds : GetEvent(Owner, eventId)
  \/ \E eventId \in EventIds : DeleteEvent(Owner, eventId)
  \/ \E guardianId \in Guardians, sosEventId \in EventIds, action \in ResponseActions :
       RespondGuardian(guardianId, sosEventId, action)

AuthNext ==
  \/ \E endpoint \in LoginEndpoints, email \in Emails, password \in PasswordInputs :
       Login(endpoint, email, password)
  \/ \E endpoint \in LoginEndpoints, email \in Emails, password \in PasswordInputs :
       RegisterAccount(endpoint, email, password)
  \/ \E endpoint \in LoginEndpoints, email \in Emails, verified \in BOOLEAN :
       GoogleSignIn(endpoint, email, verified)

RespondNext ==
  \E guardianId \in Guardians, sosEventId \in EventIds, action \in ResponseActions :
    RespondGuardian(guardianId, sosEventId, action)

Next ==
  \/ ChunkNext \/ SessionNext \/ LedgerNext \/ VolunteerNext \/ ChannelNext \/ RespondNext
  \/ AccessNext \/ IncidentNext \/ AuthNext \/ Tick

Spec == Init /\ [][Next]_vars

\* the chunk store alone
SpecChunks == Init /\ [][ChunkNext]_vars

\* the evidence ledger and the incident routes alone
SpecLedger == Init /\ [][LedgerNext \/ RespondNext]_vars

\* the alert channels and the incident routes
SpecChannels == Init /\ [][ChannelNext \/ RespondNext]_vars

\* the volunteer network, over time
SpecVolunteers == Init /\ [][VolunteerNext \/ Tick]_vars

\* upload sessions of several upload ids, over time
SpecSessions == Init /\ [][SessionNext \/ Tick]_vars

\* the incidents and everything that writes to them
SpecIncidents == Init /\ [][IncidentNext]_vars

\* the account routes alone
SpecAuth == Init /\ [][AuthNext]_vars

\* retrieval of stored evidence, over time
SpecAccess == Init /\ [][AccessNext \/ Tick]_vars

\* ===================================================================== claims
\* the caller passed authentication and sent every required field
ValidCall(tok) == AuthStatus(tok) = 200

\* the (stream, index) pairs of session u that its declared streams need and
\* that were never received
MissingIndexes(u) ==
  {key \in FileTypes \X Indexes :
     /\ \E k \in 1 .. Len(progress[u]) :
          progress[u][k].fileType = key[1] /\ key[2] < progress[u][k].totalChunks
     /\ received[u][<<key[1], ToStr(key[2])>>] = 0}

\* every index 0..N-1 of every declared stream of u was received exactly once,
\* and no other index was
ReceivedEachOnce(u) ==
  /\ progress[u] # <<>>
  /\ \A k \in 1 .. Len(progress[u]), i \in Indexes :
       received[u][<<progress[u][k].fileType, ToStr(i)>>] =
         IF i < progress[u][k].totalChunks THEN 1 ELSE 0

\* content is the chunks of stream ft held in files, indexes 0..n-1 in order
InIndexOrder(content, files, ft, n) ==
  /\ Len(content) = n
  /\ \A i \in 0 .. (n - 1) :
       files[<<ft, ToStr(i)>>] # NoFile /\ content[i + 1] = files[<<ft, ToStr(i)>>]

IsPrefix(s, t) == Len(s) <= Len(t) /\ \A i \in 1 .. Len(s) : t[i] = s[i]

\* C1: a finalize request on a session in which some index of 0..N-1 was
\* never received is refused with the incomplete-upload error, creates no
\* evidence record and leaves the session and its received chunks as they were.
C1_IncompleteFinalizeRefused ==
  [][\A tok \in CallerTokens, u \in UploadIds, status \in MetadataStatus :
       (/\ FinalizeUpload(tok, "ok", u, status)
        /\ ValidCall(tok)
        /\ u \in uploadDirs
        /\ MissingIndexes(u) # {})
       => /\ lastReply'.status = 400
          /\ lastReply'.info.error = "Incomplete upload"
          /\ evidences' = evidences
          /\ chunkFiles' = chunkFiles
          /\ finalFiles' = finalFiles
          /\ uploadDirs' = uploadDirs]_vars

\* C2: when the chunks of a session arrived in any order in which every index
\* of 0..N-1 was received exactly once, the first finalize assembles every
\* stream, with the content the in-order arrival gives (the chunks in index
\* order).
C2_AnyArrivalOrderFinalizes ==
  [][\A tok \in CallerTokens, u \in UploadIds, status \in MetadataStatus :
       (/\ FinalizeUpload(tok, "ok", u, status)
        /\ ValidCall(tok)
        /\ u \in uploadDirs
        /\ u \notin finalized
        /\ ReceivedEachOnce(u))
       => /\ lastReply'.status \in {200, 500}
          /\ lastReply'.info.assembled = StreamsOf(progress[u])
          /\ \A k \in 1 .. Len(progress[u]) :
               InIndexOrder(finalFiles'[u][progress[u][k].fileType].content,
                            chunkFiles[u], progress[u][k].fileType,
                            progress[u][k].totalChunks)]_vars

\* C3: an accepted chunk request that re-submits an index already received,
\* with the bytes already stored for it, leaves the received-chunk count of
\* its stream unchanged, whatever was received in between.
C3_ResubmittedChunkKeepsCount ==
  [][\A tok \in CallerTokens, u \in UploadIds, ft \in FileTypes, idxStr \in IndexStrs,
        total \in TotalChunksInputs, bytes \in ChunkBytes :
       (/\ UploadChunk(tok, "ok", u, First(RecordingIds), ft, idxStr, total, bytes)
        /\ ValidCall(tok)
        /\ received[u][<<ft, idxStr>>] > 0
        /\ chunkFiles[u][<<ft, idxStr>>] = bytes)
       => /\ lastReply'.status = 200
          /\ progress'[u][ProgressIndex(progress[u], ft)].uploadedChunks =
               progress[u][ProgressIndex(progress[u], ft)].uploadedChunks]_vars

\* C4: when a guardian's ACCEPTED response to an incident is acknowledged, the
\* incident has a recorded accepted response, the first of which is the
\* authoritative one.
C4_AcceptedResponseRecorded ==
  (/\ lastReply.route = "respond"
   /\ lastReply.status = 200
   /\ lastReply.info.action = "ACCEPTED")
  => \E i \in 1 .. Len(guardianResponses) :
       /\ guardianResponses[i].sosEventId = lastReply.info.sosEventId
       /\ guardianResponses[i].action = "ACCEPTED"

\* C5: across every step, every evidence record stays in the ledger and its
\* sharedWith list keeps every entry it had, in place: the list only grows.
C5_SharedWithOnlyGrows ==
  [][\A i \in 1 .. Len(evidences) :
       /\ i <= Len(evidences')
       /\ IsPrefix(evidences[i].sharedWith, evidences'[i].sharedWith)]_vars

\* a record was shared by two separate requests
C5_Witness ==
  \E i \in 1 .. Len(evidences) :
    \E a, b \in 1 .. Len(evidences[i].sharedWith) :
      evidences[i].sharedWith[a].sharedAt < evidences[i].sharedWith[b].sharedAt

\* C6: across every step, no SOS event and no evidence record is removed, and
\* every delete request is answered with a refusal (401 or 403).
C6_NothingIsEverDeleted ==
  [][/\ Len(sosEvents') >= Len(sosEvents)
     /\ Len(evidences') >= Len(evidences)
     /\ \A i \in 1 .. Len(sosEvents) : sosEvents'[i].userId = sosEvents[i].userId
     /\ \A i \in 1 .. Len(evidences) : evidences'[i].hash = evidences[i].hash
     /\ (\E tok \in CallerTokens, eventId \in EventIds : DeleteEvent(tok, eventId))
          => lastReply'.status \in {401, 403}]_vars

\* an authenticated caller asked to delete an existing event while the ledger
\* held a record, and was refused; event and record are still there
C6_Witness ==
  /\ lastReply.route = "delete-event"
  /\ lastReply.status = 403
  /\ lastReply.info # NoInfo
  /\ lastReply.info.error = "Access denied"
  /\ lastReply.info.eventId \in 1 .. Len(sosEvents)
  /\ evidences # <<>>

\* C7: in every finalize step, each stream the step reports as assembled has as
\* its final content the session's chunks of that stream in index order
\* 0..N-1.
C7_AssembledInIndexOrder ==
  [][\A tok \in CallerTokens, u \in UploadIds, status \in MetadataStatus :
       (/\ FinalizeUpload(tok, "ok", u, status)
        /\ ValidCall(tok)
        /\ lastReply'.status \in {200, 500})
       => \A k \in 1 .. Len(progress[u]) :
            progress[u][k].fileType \in lastReply'.info.assembled
            => InIndexOrder(finalFiles'[u][progress[u][k].fileType].content,
                            chunkFiles[u], progress[u][k].fileType,
                            progress[u][k].totalChunks)]_vars

\* a finalize assembled a stream of two chunks with different bytes
C7_Witness ==
  /\ lastReply.route = "finalize-upload"
  /\ lastReply.status \in {200, 500}
  /\ \E u \in UploadIds, ft \in FileTypes :
       /\ lastReply.info.uploadId = u
       /\ ft \in lastReply.info.assembled
       /\ Len(finalFiles[u][ft].content) = 2
       /\ finalFiles[u][ft].content[1] # finalFiles[u][ft].content[2]

\* C8: once a finalize has assembled a session, the session is gone: every
\* later chunk or finalize request on it is answered with the unknown-session
\* error (404) and creates no evidence record.
C8_FinalizedSessionIsGone ==
  [][\A tok \in CallerTokens, u \in finalized :
       /\ (\E ft \in FileTypes, idxStr \in IndexStrs, total \in TotalChunksInputs,
              bytes \in ChunkBytes :
             UploadChunk(tok, "ok", u, First(RecordingIds), ft, idxStr, total, bytes) /\ ValidCall(tok))
            => lastReply'.status = 404
       /\ (\E status \in MetadataStatus :
             FinalizeUpload(tok, "ok", u, status) /\ ValidCall(tok))
            => (lastReply'.status = 404 /\ evidences' = evidences)]_vars

\* the share lists whose every entry is a party the schema knows
ValidShareLists == {<<"police">>, <<"family", "police">>}

\* C9: a share request on an existing record of the caller, naming valid
\* parties, succeeds, appends one entry per party at the end of sharedWith in
\* the order given, keeps every earlier entry, and returns the updated list.
C9_ShareAppendsParties ==
  [][\A router \in Routers, tok \in LedgerTokens, evidenceId \in 1 .. MaxRequests,
        shareWith \in ValidShareLists :
       (/\ ShareEvidence(router, tok, "ok", evidenceId, shareWith)
        /\ ValidCall(tok)
        /\ FindOwnEvidence(evidences, evidenceId, ReqUserId(tok)) # NoId)
       => /\ lastReply'.status = 200
          /\ Len(evidences'[evidenceId].sharedWith) =
               Len(evidences[evidenceId].sharedWith) + Len(shareWith)
          /\ IsPrefix(evidences[evidenceId].sharedWith, evidences'[evidenceId].sharedWith)
          /\ \A j \in 1 .. Len(shareWith) :
               evidences'[evidenceId].sharedWith[Len(evidences[evidenceId].sharedWith) + j].type
                 = shareWith[j]
          /\ lastReply'.info.sharedWith = evidences'[evidenceId].sharedWith]_vars

\* C10: a share request whose evidenceId names no existing record is answered
\* with the not-found error (404) and changes no record.
C10_ShareUnknownIsNotFound ==
  [][\A router \in Routers, tok \in LedgerTokens, evidenceId \in 1 .. MaxRequests,
        shareWith \in ValidShareLists :
       (/\ ShareEvidence(router, tok, "ok", evidenceId, shareWith)
        /\ ValidCall(tok)
        /\ evidenceId \notin 1 .. Len(evidences))
       => /\ lastReply'.status = 404
          /\ evidences' = evidences]_vars

\* the totalChunks declared for stream ft of session u: what progress.json
\* holds for it, or what the request declares when it is the stream's first
DeclaredTotal(u, ft, total) ==
  IF ProgressIndex(progress[u], ft) # 0
  THEN progress[u][ProgressIndex(progress[u], ft)].totalChunks
  ELSE total

\* C11: an accepted chunk request whose chunkIndex is greater than or equal to
\* the totalChunks declared for its stream is refused with an error, and the
\* session's stored chunks and progress stay as they were.
C11_IndexOutOfRangeRefused ==
  [][\A tok \in CallerTokens, u \in UploadIds, ft \in FileTypes, idxStr \in IndexStrs,
        total \in TotalChunksInputs, bytes \in ChunkBytes :
       (/\ UploadChunk(tok, "ok", u, First(RecordingIds), ft, idxStr, total, bytes)
        /\ ValidCall(tok)
        /\ ParseInt(idxStr) >= DeclaredTotal(u, ft, total))
       => /\ lastReply'.status \in {400, 404, 416, 422}
          /\ chunkFiles' = chunkFiles
          /\ progress' = progress]_vars

\* the upload sessions that are live: their directory exists and no finalize
\* has assembled them
LiveSessions == uploadDirs \ finalized

\* C12: at every moment, no two live upload sessions have the same
\* recordingId.
C12_OneLiveSessionPerRecording ==
  \A u1, u2 \in LiveSessions :
    u1 # u2 => opened[u1].recordingId # opened[u2].recordingId

\* C13: a finalize request on a session that was opened more than a TTL ago
\* (here: at least one clock step of 12 hours, longer than the default TTL of
\* one hour) and was never finalized is refused with the session-expired
\* error, creates no record and assembles nothing.
C13_ExpiredSessionRefused ==
  [][\A tok \in SessionTokens, u \in AllUploadIds, status \in MetadataStatus :
       (/\ FinalizeUpload(tok, "ok", u, status)
        /\ u \in LiveSessions
        /\ now - opened[u].at >= TickHours)
       => /\ lastReply'.status \in {400, 404, 410}
          /\ lastReply'.info.error = "Session expired"
          /\ evidences' = evidences
          /\ finalFiles' = finalFiles]_vars

\* the set of files of a record, whatever the order they were submitted in
FileSetOf(rec) ==
  {[filename |-> rec.evidenceFiles[i].filename, data |-> rec.evidenceFiles[i].data,
    mimeType |-> rec.evidenceFiles[i].mimeType] : i \in 1 .. Len(rec.evidenceFiles)}

\* C14: two evidence records made from the same set of files have the same
\* combined hash, whatever the order the files were submitted in.
C14_HashIgnoresSubmissionOrder ==
  \A i, j \in 1 .. Len(evidences) :
    FileSetOf(evidences[i]) = FileSetOf(evidences[j])
      => evidences[i].hash = evidences[j].hash

FreshVolunteer(id) ==
  /\ users[id].isVolunteer
  /\ \E t \in users[id].lastActive : now - t <= DayHours

\* C16: every responder a candidate query (nearby, alert-nearby) returns is,
\* at query time, a registered volunteer whose last heartbeat is at most 24
\* hours old.
C16_OnlyFreshVolunteersReturned ==
  [][(/\ nreq' = nreq + 1
      /\ lastReply'.route \in {"nearby", "alert-nearby"}
      /\ lastReply'.status = 200)
     => \A id \in lastReply'.info.volunteers : FreshVolunteer(id)]_vars

\* a query returned somebody, fewer than the limit, while a registered
\* volunteer 111 m from a returned one was left out for a stale heartbeat
C16_Witness ==
  /\ lastReply.route \in {"nearby", "alert-nearby"}
  /\ lastReply.status = 200
  /\ lastReply.info.volunteers # {}
  /\ Cardinality(lastReply.info.volunteers) < AlertLimit
  /\ \E r \in lastReply.info.volunteers, s \in DOMAIN users \ lastReply.info.volunteers :
       /\ users[s].isVolunteer
       /\ \E t \in users[s].lastActive : now - t > DayHours
       /\ \E p \in users[r].location, q \in users[s].location :
            calculateDistance(p, q) <= MetersPerMilliDegree

\* the volunteers eligible for a query at point q: registered, heartbeat at
\* most 24 hours old, within the radius
EligiblePool(q, radius) ==
  {id \in DOMAIN users :
     /\ FreshVolunteer(id)
     /\ \E p \in users[id].location : calculateDistance(p, q) <= radius}

Min(a, b) == IF a <= b THEN a ELSE b

\* C17: a candidate query succeeds and returns min(limit, size of the eligible
\* pool) responders, also when the pool is smaller than the limit or empty.
C17_QueryReturnsMinOfLimitAndPool ==
  [][\A tok \in CallerTokens, lat \in Latitudes :
       /\ (AlertNearby(tok, "ok", lat, Meridian) /\ ValidCall(tok))
            => /\ lastReply'.status = 200
               /\ lastReply'.info.alerted =
                    Min(AlertLimit, Cardinality(EligiblePool(<<Meridian, lat>>, AlertRadius)))
       /\ \A radius \in Radiuses :
            (NearbyVolunteers(tok, lat, Meridian, radius) /\ ValidCall(tok))
              => /\ lastReply'.status = 200
                 /\ lastReply'.info.count =
                      Min(NearbyLimit, Cardinality(EligiblePool(<<Meridian, lat>>, radius)))]_vars

\* C18: a heartbeat (location update) of a registered volunteer is accepted
\* and leaves as stored position and last-active time exactly its own, with
\* no earlier position kept; a heartbeat of a user who is not a registered
\* volunteer is refused and changes nothing.
C18_HeartbeatStoresLatestPosition ==
  [][\A tok \in VolunteerTokens, latitude \in Latitudes :
       (UpdateLocation(tok, "ok", latitude, Meridian) /\ ValidCall(tok))
       => IF ReqUserId(tok) \in DOMAIN users /\ users[ReqUserId(tok)].isVolunteer
          THEN /\ lastReply'.status = 200
               /\ users'[ReqUserId(tok)].location = {<<Meridian, latitude>>}
               /\ users'[ReqUserId(tok)].lastActive = {now}
          ELSE /\ lastReply'.status \in {400, 403, 404}
               /\ users' = users]_vars

\* C19: after a sendEmergencySMS call, every contact whose send the provider
\* rejected was tried exactly twice (the send and one retry) before it was
\* counted as failed.
C19_FailedSendRetriedOnce ==
  [][\A contacts \in SUBSET Contacts, rejected \in SUBSET Contacts :
       (rejected \subseteq contacts /\ SendEmergencySMS(contacts, TRUE, rejected))
       => \A c \in rejected : sms'.attempts[c] = 2]_vars

\* C20: every request that was served has an answer with a definite status;
\* a handler runs to its end in one step and keeps no reference to the
\* response, so a request without an answer after that step never gets one.
C20_EveryRequestIsAnswered ==
  lastReply.route # "none" => lastReply.status # NoResponse

\* C21: a file is served only on a reference that was issued at most one TTL
\* (1 hour) before: GET /file/:token never answers 200 for a reference older
\* than that, and the permanent address of an assembled stream under
\* /uploads never answers 200.
C21_RetrievalOnlyWithinTtl ==
  [][/\ \A router \in Routers, tok \in AccessTokens, token \in FileTokens :
          (GetFile(router, tok, token) /\ lastReply'.status = 200)
          => \A h \in FindFileByToken(evidences, token, ReqUserId(tok)) :
               now - evidences[h[1]].evidenceFiles[h[2]].uploadedAt <= SignedUrlTtlHours
     /\ \A u \in UploadIds, ft \in FileTypes :
          ServeStatic(u, ft) => lastReply'.status # 200]_vars

\* C22: a finalize that commits a session (every index received once, every
\* stream assembled) creates an evidence record that some incident then
\* references, and every evidence reference an incident held before is still
\* held by an incident afterwards.
C22_CommitAttachesEvidence ==
  [][\A tok \in CallerTokens, u \in UploadIds, status \in MetadataStatus :
       (/\ FinalizeUpload(tok, "ok", u, status)
        /\ ValidCall(tok)
        /\ u \in uploadDirs
        /\ ReceivedEachOnce(u)
        /\ u \in finalized')
       => /\ Len(evidences') = Len(evidences) + 1
          /\ \E i \in 1 .. Len(sosEvents') : sosEvents'[i].evidence = Len(evidences')
          /\ \A i \in 1 .. Len(sosEvents) :
               sosEvents[i].evidence # NoId
               => \E j \in 1 .. Len(sosEvents') :
                    sosEvents'[j].evidence = sosEvents[i].evidence]_vars

TerminalStatuses == {"resolved", "cancelled", "closed-unanswered"}

C25_RaiseCreatesOneActiveIncident ==
  [][\A tok \in CallerTokens, type \in {Undefined, "panic"} :
       (StartSOS(tok, type) /\ tok.kind = "userId")
       => /\ lastReply'.status = 200
          /\ Len(sosEvents') = Len(sosEvents) + 1
          /\ IsPrefix(sosEvents, sosEvents')
          /\ sosEvents'[Len(sosEvents')].status = "active"
          /\ sosEvents'[Len(sosEvents')].userId = tok.uid]_vars

\* the indexes of stream ft of session u received so far
ReceivedIndexes(recv, u, ft) == {i \in IndexStrs : recv[u][<<ft, i>>] > 0}

\* C24: of two chunk requests for one stream with different indexes, both
\* below the declared totalChunks, served in either order, the second leaves
\* both chunks stored and a received count that counts both.  (The handler body has no await: the bodies of
\* two concurrent requests run one after the other, in either order.)
C24_ConcurrentChunksBothCount ==
  [][\A tok \in CallerTokens, u \in UploadIds, ft \in FileTypes, idxStr \in IndexStrs,
        total \in TotalChunksInputs, bytes \in ChunkBytes :
       (/\ UploadChunk(tok, "ok", u, First(RecordingIds), ft, idxStr, total, bytes)
        /\ ValidCall(tok)
        /\ received[u][<<ft, idxStr>>] = 0
        /\ ParseInt(idxStr) < DeclaredTotal(u, ft, total)
        /\ \E other \in IndexStrs \ {idxStr} :
             /\ ParseInt(other) < DeclaredTotal(u, ft, total)
             /\ received[u][<<ft, other>>] = 1
             /\ chunkFiles[u][<<ft, other>>] # NoFile)
       => /\ chunkFiles'[u][<<ft, idxStr>>] = bytes
          /\ \A other \in IndexStrs \ {idxStr} :
               chunkFiles'[u][<<ft, other>>] = chunkFiles[u][<<ft, other>>]
          /\ progress'[u][ProgressIndex(progress'[u], ft)].uploadedChunks =
               Cardinality(ReceivedIndexes(received', u, ft))]_vars

\* C27: a finalize that ends with an error leaves every chunk file of the
\* session in place.
C27_FailedFinalizeKeepsChunks ==
  [][\A tok \in CallerTokens, u \in UploadIds, status \in MetadataStatus :
       (/\ FinalizeUpload(tok, "ok", u, status)
        /\ ValidCall(tok)
        /\ lastReply'.status >= 400)
       => chunkFiles' = chunkFiles]_vars

\* the records that hold a file with the given secure URL
RecordsWithFile(token) ==
  {r \in 1 .. Len(evidences) :
     \E i \in 1 .. Len(evidences[r].evidenceFiles) :
       evidences[r].evidenceFiles[i].secureUrl = token}

\* C26: a request of an authenticated caller for a file, an event or an
\* evidence record that belongs to somebody else is answered 403 or 404 (a
\* reply that carries an error message only).
C26_OnlyTheOwnerReads ==
  [][\A tok \in AccessTokens :
       ValidCall(tok)
       => /\ \A router \in Routers, token \in FileTokens :
               (/\ GetFile(router, tok, token)
                /\ \E r \in RecordsWithFile(token) : evidences[r].userId # ReqUserId(tok))
               => lastReply'.status \in {403, 404}
          /\ \A eventId \in EventIds :
               (/\ GetEvent(tok, eventId)
                /\ eventId <= Len(sosEvents)
                /\ sosEvents[eventId].userId # ReqUserId(tok))
               => lastReply'.status \in {403, 404}
          /\ (/\ GetRecording(tok, First(RecordingIds))
              /\ evidences # <<>>
              /\ \A r \in 1 .. Len(evidences) : evidences[r].userId # ReqUserId(tok))
             => lastReply'.status \in {403, 404}]_vars

C29_TokenOnlyForVerifiedPassword ==
  [][\A endpoint \in LoginEndpoints, email \in Emails, password \in PasswordInputs :
       (Login(endpoint, email, password) /\ lastReply'.status = 200)
       => \E stored \in accounts[email] : BcryptCompare(password, stored)]_vars

\* C30: a volunteer registration sent with a token the login and register
\* routes issue (payload {userId}) and a location is answered 200 and marks
\* the token's user, and nobody else, as a volunteer at that location.
C30_LoginTokenRegistersItsUser ==
  [][\A uid \in Users, latitude \in Latitudes \ {0} :
       RegisterVolunteer(IssuedToken(uid), "ok", latitude, Meridian)
       => /\ lastReply'.status = 200
          /\ users'[uid] = [isVolunteer |-> TRUE, location |-> {<<Meridian, latitude>>},
                            lastActive |-> {now}]
          /\ \A other \in DOMAIN users \ {uid} : users'[other] = users[other]]_vars

====
